---- MODULE Spec2Model ----
(***************************************************************************)
(* Connect-Four Monte Carlo tree search of src/pa3.py: the Board class,    *)
(* the Node tree, calculate_ucb and run_mcts (PMCGS and UCT), as a state   *)
(* machine.  A cell holds 0 (None), 1 (red) or 2 (yellow).  Columns are    *)
(* numbered 1..Cols as in the program's interface (col_index = col - 1),   *)
(* rows 1..Rows stand for the list indices 0..rows-1.                      *)
(***************************************************************************)
EXTENDS Integers, Sequences, FiniteSets, TLC

\* Board dimensions explored (Board.__init__ takes cols and rows).
Cols == 4
Rows == 2
\* Largest num_simulations explored.
MaxSims == 3
\* Longest drop sequence explored by the do/undo driver.
MaxSeq == 2
\* Most empty cells of a board handed to run_mcts.
MaxEmpty == 3
MaxEmptyLive == 2
MaxSimsLive == 2
LoadCols == 2
LoadRows == 3
PlayCols == 4
PlayRows == 4

\* The empty cell (Python None).
None == 0
Players == {1, 2}
Cells == {None, 1, 2}

ColRange == 1..Cols
RowRange == 1..Rows

----------------------------------------------------------------------------
(* Board *)

\* Board.__init__(cols, rows): every cell None.
NewBoard(ncols, nrows) == [c \in 1..ncols |-> [r \in 1..nrows |-> None]]

EmptyBoard == NewBoard(Cols, Rows)

\* self.cols and self.rows of a board.
cols(b) == Len(b)
rows(b) == Len(b[1])

\* Python list indexing of self.board[col_index]: a negative index counts
\* from the end; 0 stands for an index out of range (IndexError).
PyCol(b, col) ==
    LET col_index == col - 1
    IN  IF col_index >= 0 /\ col_index < cols(b) THEN col_index + 1
        ELSE IF col_index < 0 /\ col_index >= 0 - cols(b) THEN col_index + cols(b) + 1
        ELSE 0

\* The first index i of range(rows) with board[col_index][i] None, 0 if none.
FirstEmpty(column) ==
    IF \E r \in DOMAIN column : column[r] = None
    THEN CHOOSE r \in DOMAIN column :
            column[r] = None /\ \A q \in DOMAIN column : q < r => column[q] # None
    ELSE 0

\* The first index i of range(rows-1,-1,-1) with board[col_index][i] not None.
LastFilled(column) ==
    IF \E r \in DOMAIN column : column[r] # None
    THEN CHOOSE r \in DOMAIN column :
            column[r] # None /\ \A q \in DOMAIN column : q > r => column[q] = None
    ELSE 0

\* self.board[col_index] raises IndexError when col_index is out of range.
index_raises(b, col) == PyCol(b, col) = 0

\* drop_in_slot with the scan started at the top row.
drop_in_slot_from_top(b, col, p) ==
    LET c == PyCol(b, col)
    IN  IF c = 0 THEN b
        ELSE IF \E r \in DOMAIN b[c] : b[c][r] = None
             THEN [b EXCEPT ![c][CHOOSE r \in DOMAIN b[c] :
                        b[c][r] = None /\ \A q \in DOMAIN b[c] : q > r => b[c][q] # None] = p]
             ELSE b

\* Board.drop_in_slot: the board after the call (unchanged when the scan
\* finds no None cell, or when the call raises).
drop_in_slot(b, col, p) ==
    LET c == PyCol(b, col)
    IN  IF c = 0 THEN b
        ELSE LET r == FirstEmpty(b[c])
             IN  IF r = 0 THEN b ELSE [b EXCEPT ![c][r] = p]

\* undo_move with the scan started at the bottom row.
undo_move_lowest(b, col) ==
    LET c == PyCol(b, col)
    IN  IF c = 0 \/ \A r \in DOMAIN b[c] : b[c][r] = None THEN b
        ELSE [b EXCEPT ![c][CHOOSE r \in DOMAIN b[c] :
                    b[c][r] # None /\ \A q \in DOMAIN b[c] : q < r => b[c][q] = None] = None]

\* undo_move with col used as the list index (col_index = col).
undo_move_off_by_one(b, col) ==
    LET c == PyCol(b, col + 1)
    IN  IF c = 0 THEN b
        ELSE LET r == LastFilled(b[c])
             IN  IF r = 0 THEN b ELSE [b EXCEPT ![c][r] = None]

\* Board.undo_move: the board after the call.
undo_move(b, col) ==
    LET c == PyCol(b, col)
    IN  IF c = 0 THEN b
        ELSE LET r == LastFilled(b[c])
             IN  IF r = 0 THEN b ELSE [b EXCEPT ![c][r] = None]

\* is_slot_open that tests the range of col only, not the top cell.
is_slot_open_in_range(b, col) == col - 1 >= 0 /\ col - 1 < cols(b)

\* Board.is_slot_open
is_slot_open(b, col) ==
    LET col_index == col - 1
    IN  IF col_index < 0 \/ col_index >= cols(b) THEN FALSE
        ELSE b[col][rows(b)] = None

\* get_legal_moves without the is_slot_open test.
get_legal_moves_all(b) == 1..cols(b)

\* Board.get_legal_moves (ascending columns; kept as the set of its members
\* and, where order matters, enumerated ascending).
get_legal_moves(b) == {col \in 1..cols(b) : is_slot_open(b, col)}

\* Board.is_full
is_full(b) == \A c \in 1..cols(b) : b[c][rows(b)] # None

\* Board._has_win: a run of four equal to player in the sequence cells,
\* found by the running count of the loop.
RECURSIVE HasWinFrom(_, _, _, _)
HasWinFrom(p, cells, i, count) ==
    IF i > Len(cells) THEN FALSE
    ELSE IF cells[i] = p
         THEN IF count + 1 = 4 THEN TRUE ELSE HasWinFrom(p, cells, i + 1, count + 1)
         ELSE HasWinFrom(p, cells, i + 1, 0)

has_win(p, cells) == HasWinFrom(p, cells, 1, 0)

\* Board._check_horizontal
check_horizontal(b, p) ==
    \E r \in 1..rows(b) : has_win(p, [c \in 1..cols(b) |-> b[c][r]])

\* Board._check_vertical
check_vertical(b, p) ==
    \E c \in 1..cols(b) : has_win(p, b[c])

\* Board._check_diagonal_up: start_col in range(cols-3), start_row in range(rows-3)
check_diagonal_up(b, p) ==
    \E sc \in 1..(cols(b) - 3) : \E sr \in 1..(rows(b) - 3) :
        \A i \in 0..3 : b[sc + i][sr + i] = p

\* The falling diagonal scan starting one row too high: range(4, rows).
check_diagonal_down_short(b, p) ==
    \E sc \in 1..(cols(b) - 3) : \E sr \in 5..rows(b) :
        \A i \in 0..3 : b[sc + i][sr - i] = p

\* Board._check_diagonal_down: start_col in range(cols-3), start_row in range(3, rows)
check_diagonal_down(b, p) ==
    \E sc \in 1..(cols(b) - 3) : \E sr \in 4..rows(b) :
        \A i \in 0..3 : b[sc + i][sr - i] = p

\* Board.is_won_by
is_won_by(b, p) ==
    \/ check_horizontal(b, p)
    \/ check_vertical(b, p)
    \/ check_diagonal_up(b, p)
    \/ check_diagonal_down(b, p)

\* is_terminal that looks at is_full only.
is_terminal_full_only(b) == is_full(b)

\* Board.is_terminal
is_terminal(b) == is_won_by(b, 1) \/ is_won_by(b, 2) \/ is_full(b)

\* The value get_winner returns for "return None" (not terminal).
NoWinner == 9

\* get_winner with the signs of the two players exchanged.
get_winner_swapped(b) ==
    IF is_won_by(b, 1) THEN 1
    ELSE IF is_won_by(b, 2) THEN 0 - 1
    ELSE IF is_full(b) THEN 0
    ELSE NoWinner

\* Board.get_winner: -1 red, 1 yellow, 0 draw.
get_winner(b) ==
    IF is_won_by(b, 1) THEN 0 - 1
    ELSE IF is_won_by(b, 2) THEN 1
    ELSE IF is_full(b) THEN 0
    ELSE NoWinner

----------------------------------------------------------------------------
(* Node and calculate_ucb *)

\* A node is named by the sequence of moves that leads to it from the root
\* (its move is the last element, its parent the sequence without it).
\* Node.__init__: wi = 0, ni = 0, children = {} (a dict, kept as the
\* sequence of its keys in insertion order).
NewNode == [wi |-> 0, ni |-> 0, children |-> <<>>]

Root == <<>>

\* move in node.children
HasChild(t, node, move) ==
    \E i \in 1..Len(t[node].children) : t[node].children[i] = move

\* Fixed-point scale of the real numbers of calculate_ucb (four decimals).
Scale == 10000

\* float('inf') on the fixed-point scale.
Inf == 100000000

\* math.log(n) * Scale, rounded, for n = 1..12.
LogTable == <<0, 6931, 10986, 13863, 16094, 17918, 19459, 20794, 21972,
              23026, 23979, 24849>>

\* The largest integer whose square is at most x (math.sqrt on the scale).
RECURSIVE SqrtSearch(_, _, _)
SqrtSearch(x, lo, hi) ==
    IF lo >= hi THEN lo
    ELSE LET mid == (lo + hi + 1) \div 2
         IN  IF mid * mid <= x THEN SqrtSearch(x, mid, hi)
             ELSE SqrtSearch(x, lo, mid - 1)

ISqrt(x) == SqrtSearch(x, 0, 16000)

\* calculate_ucb raises (math.log(0)) when the child is visited and the
\* parent is not.
ucb_raises(parent_visits, child_visits) ==
    child_visits # 0 /\ parent_visits = 0

\* calculate_ucb, on the fixed-point scale.
calculate_ucb(parent_visits, child_wins, child_visits, is_maximizing_player) ==
    IF child_visits = 0
    THEN IF is_maximizing_player THEN Inf ELSE 0 - Inf
    ELSE LET exploitation_value == (child_wins * Scale) \div child_visits
             exploration_bonus ==
                (141 * ISqrt((LogTable[parent_visits] * Scale) \div child_visits)) \div 100
         IN  IF is_maximizing_player
             THEN exploitation_value + exploration_bonus
             ELSE exploitation_value - exploration_bonus

\* run_mcts lines 207-221: the scan of current_node.children.items() in
\* insertion order with strict comparisons; None (0) when nothing beats the
\* initial best_ucb.
RECURSIVE UctScan(_, _, _, _, _, _)
UctScan(t, node, cp, i, best_move, best_ucb) ==
    IF i > Len(t[node].children) THEN best_move
    ELSE LET move == t[node].children[i]
             child == t[Append(node, move)]
             ucb_value == calculate_ucb(t[node].ni, child.wi, child.ni, cp = 2)
         IN  IF cp = 2
             THEN IF ucb_value > best_ucb
                  THEN UctScan(t, node, cp, i + 1, move, ucb_value)
                  ELSE UctScan(t, node, cp, i + 1, best_move, best_ucb)
             ELSE IF ucb_value < best_ucb
                  THEN UctScan(t, node, cp, i + 1, move, ucb_value)
                  ELSE UctScan(t, node, cp, i + 1, best_move, best_ucb)

\* The UCT scan with the direction of the other player.
uct_select_flipped(t, node, cp) ==
    UctScan(t, node, 3 - cp, 1, None, IF 3 - cp = 2 THEN 0 - Inf ELSE Inf)

uct_select(t, node, cp) ==
    UctScan(t, node, cp, 1, None, IF cp = 2 THEN 0 - Inf ELSE Inf)

\* Some calculate_ucb call of the scan raises.
uct_raises(t, node) ==
    \E i \in 1..Len(t[node].children) :
        ucb_raises(t[node].ni, t[Append(node, t[node].children[i])].ni)

\* Backpropagation that leaves out the root (path[1:]).
backpropagate_skip_root(t, nodes, value) ==
    [n \in DOMAIN t |->
        IF \E i \in 2..Len(nodes) : nodes[i] = n
        THEN [t[n] EXCEPT !.ni = @ + 1, !.wi = @ + value]
        ELSE t[n]]

\* Backpropagation that counts the visit on every node of the path but adds
\* the value to the last one only.
backpropagate_leaf_value(t, nodes, value) ==
    [n \in DOMAIN t |->
        IF \E i \in 1..Len(nodes) : nodes[i] = n
        THEN [t[n] EXCEPT !.ni = @ + 1,
                          !.wi = IF n = nodes[Len(nodes)] THEN @ + value ELSE @]
        ELSE t[n]]

\* Backpropagation that leaves out the last node of the path (path[:-1]).
backpropagate_parents_only(t, nodes, value) ==
    [n \in DOMAIN t |->
        IF \E i \in 1..(Len(nodes) - 1) : nodes[i] = n
        THEN [t[n] EXCEPT !.ni = @ + 1, !.wi = @ + value]
        ELSE t[n]]

\* run_mcts lines 254-256: ni += 1 and wi += final_value on every node of path.
backpropagate(t, nodes, value) ==
    [n \in DOMAIN t |->
        IF \E i \in 1..Len(nodes) : nodes[i] = n
        THEN [t[n] EXCEPT !.ni = @ + 1, !.wi = @ + value]
        ELSE t[n]]

\* run_mcts lines 277-293: the scan of root.children.items() in insertion
\* order.  best_n = 0 stands for the initial best_avg of -inf (or inf); the
\* averages wi/ni are compared as fractions.
RECURSIVE BestScan(_, _, _, _, _, _)
BestScan(t, pl, i, best, best_w, best_n) ==
    IF i > Len(t[Root].children) THEN best
    ELSE LET move == t[Root].children[i]
             child == t[<<move>>]
             better == IF best_n = 0 THEN TRUE
                       ELSE IF pl = 2 THEN child.wi * best_n > best_w * child.ni
                       ELSE child.wi * best_n < best_w * child.ni
         IN  IF child.ni > 0 /\ better
             THEN BestScan(t, pl, i + 1, move, child.wi, child.ni)
             ELSE BestScan(t, pl, i + 1, best, best_w, best_n)

\* Best move extraction that maximizes for either player.
select_best_move_max(t, pl) == BestScan(t, 2, 1, None, 0, 0)

select_best_move(t, pl) == BestScan(t, pl, 1, None, 0, 0)

\* The columns of the final report: range(1, 8).
ReportCols == 7

\* What the report prints for a column without a root child: "Null".
Null == [null |-> TRUE, cents |-> 0]

\* f"{wi / ni:.2f}": the quotient rounded to hundredths, as a signed number
\* of hundredths (the nearest one; an exact half, which needs ni to be a
\* multiple of 8, goes to the even neighbour).
FormatAvg(wi, ni) ==
    LET a == (IF wi < 0 THEN 0 - wi ELSE wi) * 100
        q == a \div ni
        r == a % ni
        m == IF 2 * r > ni THEN q + 1
             ELSE IF 2 * r = ni THEN q + (q % 2)
             ELSE q
    IN  IF wi < 0 THEN 0 - m ELSE m

\* The report with the total printed in place of the average.
column_report_raw(t) ==
    [col \in 1..ReportCols |->
        IF HasChild(t, Root, col)
        THEN [null |-> FALSE, cents |-> t[<<col>>].wi * 100]
        ELSE Null]

\* run_mcts lines 266-273: what is printed for each column.
column_report(t) ==
    [col \in 1..ReportCols |->
        IF HasChild(t, Root, col)
        THEN [null |-> FALSE, cents |-> FormatAvg(t[<<col>>].wi, t[<<col>>].ni)]
        ELSE Null]

\* child.wi / child.ni of the report raises ZeroDivisionError.
report_raises(t) ==
    \E col \in 1..ReportCols : HasChild(t, Root, col) /\ t[<<col>>].ni = 0

----------------------------------------------------------------------------
(* State *)

VARIABLES
    board,            \* Board.board, the one shared grid
    tree,             \* the Node objects reachable from root, by name
    player,           \* run_mcts argument
    num_simulations,  \* run_mcts argument
    use_uct,          \* run_mcts argument
    simulation,       \* the for loop's counter: simulations completed
    current_node,     \* run_mcts local
    current_player,   \* run_mcts local
    path,             \* run_mcts local: the nodes traversed
    moves_made,       \* run_mcts local: the columns dropped into
    undone,           \* how far the loop over reversed(moves_made) has got
    final_value,      \* run_mcts local
    best_move,        \* run_mcts local, the returned value once pc = "done"
    pc,               \* position in the driver or in run_mcts
    exc,              \* the exception that ended the last call, "none" if none
    board0,           \* the grid when run_mcts (or the drop sequence) began
    tree0,            \* the tree when the current simulation began
    last_call,        \* the Board call the driver issued last
    report,           \* the column values printed by run_mcts (lines 266-273)
    move_count        \* play_full_game local

vars == <<board, tree, player, num_simulations, use_uct, simulation,
          current_node, current_player, path, moves_made, undone,
          final_value, best_move, pc, exc, board0, tree0, last_call, report,
          move_count>>

searchVars == <<tree, player, num_simulations, use_uct, simulation,
                current_node, current_player, path, final_value, best_move,
                tree0, report, move_count>>

\* Grids in which no piece floats: what legal drops from the empty board reach.
ColumnStates ==
    {col \in [RowRange -> Cells] :
        \A r \in RowRange : \A q \in RowRange :
            (q < r /\ col[q] = None) => col[r] = None}

GravityBoards == [ColRange -> ColumnStates]

\* The number of None cells of a grid.
RECURSIVE EmptyInColumns(_, _)
EmptyInColumns(b, c) ==
    IF c = 0 THEN 0
    ELSE Cardinality({r \in DOMAIN b[c] : b[c][r] = None}) + EmptyInColumns(b, c - 1)

EmptyCount(b) == EmptyInColumns(b, cols(b))

NoCall == [op |-> "none", col |-> 0, player |-> 0]

----------------------------------------------------------------------------
(* run_mcts *)

\* The call run_mcts(board, player, num_simulations, use_uct, _) on a board
\* built by legal drops; root = Node().
Init ==
    /\ board \in {b \in GravityBoards : EmptyCount(b) <= MaxEmpty}
    /\ player \in Players
    /\ num_simulations \in 0..MaxSims
    /\ use_uct \in BOOLEAN
    /\ tree = (Root :> NewNode)
    /\ simulation = 0
    /\ current_node = Root
    /\ current_player = player
    /\ path = <<>>
    /\ moves_made = <<>>
    /\ undone = 0
    /\ final_value = NoWinner
    /\ best_move = None
    /\ pc = "loop"
    /\ exc = "none"
    /\ board0 = board
    /\ tree0 = tree
    /\ last_call = NoCall
    /\ report = <<>>
    /\ move_count = 0

\* Lines 145-149: the next iteration of the for loop.
StartSimulation ==
    /\ pc = "loop"
    /\ simulation < num_simulations
    /\ current_node' = Root
    /\ current_player' = player
    /\ path' = <<Root>>
    /\ moves_made' = <<>>
    /\ undone' = 0
    /\ tree0' = tree
    /\ pc' = "select"
    /\ UNCHANGED <<board, tree, player, num_simulations, use_uct, simulation,
                   final_value, best_move, exc, board0, last_call, report,
                   move_count>>

\* The partition that takes a node with any child for fully expanded.
untried_moves_first_only(b, t, node) ==
    IF Len(t[node].children) > 0 THEN {}
    ELSE get_legal_moves(b)

\* The partition without the test "move not in current_node.children".
untried_moves_all(b, t, node) == get_legal_moves(b)

\* Lines 155-159.
untried_moves(b, t, node) ==
    {move \in get_legal_moves(b) : ~HasChild(t, node, move)}

\* The expansion without its break: the selection loop goes on.
AfterExpansionNoBreak == "select"

\* Where control goes after the expansion (the break of line 190).
AfterExpansion == "rollout"

\* Lines 161-190: expansion of one untried move, then break.
Expand ==
    /\ pc = "select"
    /\ ~is_terminal(board)
    /\ untried_moves(board, tree, current_node) # {}
    /\ \E selected_move \in untried_moves(board, tree, current_node) :
        LET new_node == Append(current_node, selected_move)
        IN  /\ board' = drop_in_slot(board, selected_move, current_player)
            /\ moves_made' = Append(moves_made, selected_move)
            /\ tree' = [n \in DOMAIN tree \cup {new_node} |->
                          IF n = new_node THEN NewNode
                          ELSE IF n = current_node
                          THEN [tree[n] EXCEPT !.children =
                                    IF HasChild(tree, n, selected_move) THEN @
                                    ELSE Append(@, selected_move)]
                          ELSE tree[n]]
            /\ current_node' = new_node
            /\ path' = Append(path, new_node)
    /\ current_player' = 3 - current_player
    /\ pc' = AfterExpansion
    /\ UNCHANGED <<player, num_simulations, use_uct, simulation, undone,
                   final_value, best_move, exc, board0, tree0, last_call, report,
                   move_count>>

\* Lines 233-237 after a move was selected at a fully expanded node; the
\* lookup current_node.children[selected_move] raises KeyError on a missing
\* key, and None - 1 in drop_in_slot raises TypeError.
Descend(selected_move) ==
    IF selected_move = None
    THEN /\ exc' = "TypeError"
         /\ pc' = "raised"
         /\ UNCHANGED <<board, moves_made, current_node, path, current_player>>
    ELSE /\ board' = drop_in_slot(board, selected_move, current_player)
         /\ moves_made' = Append(moves_made, selected_move)
         /\ IF HasChild(tree, current_node, selected_move)
            THEN /\ current_node' = Append(current_node, selected_move)
                 /\ path' = Append(path, Append(current_node, selected_move))
                 /\ current_player' = 3 - current_player
                 /\ pc' = "select"
                 /\ exc' = exc
            ELSE /\ exc' = "KeyError"
                 /\ pc' = "raised"
                 /\ UNCHANGED <<current_node, path, current_player>>

\* Lines 193-221 and 233-237: UCT descent at a fully expanded node.
SelectUCT ==
    /\ pc = "select"
    /\ ~is_terminal(board)
    /\ untried_moves(board, tree, current_node) = {}
    /\ use_uct
    /\ IF uct_raises(tree, current_node)
       THEN /\ exc' = "ValueError"
            /\ pc' = "raised"
            /\ UNCHANGED <<board, moves_made, current_node, path, current_player>>
       ELSE Descend(uct_select(tree, current_node, current_player))
    /\ UNCHANGED <<tree, player, num_simulations, use_uct, simulation, undone,
                   final_value, best_move, board0, tree0, last_call, report,
                   move_count>>

\* Lines 222-237: PMCGS descent, random.choice(legal_moves).
SelectPMCGS ==
    /\ pc = "select"
    /\ ~is_terminal(board)
    /\ untried_moves(board, tree, current_node) = {}
    /\ ~use_uct
    /\ \E selected_move \in get_legal_moves(board) : Descend(selected_move)
    /\ UNCHANGED <<tree, player, num_simulations, use_uct, simulation, undone,
                   final_value, best_move, board0, tree0, last_call, report,
                   move_count>>

\* Lines 240-246: one iteration of the rollout loop.
Rollout ==
    /\ pc = "rollout"
    /\ ~is_terminal(board)
    /\ \E random_move \in get_legal_moves(board) :
        /\ board' = drop_in_slot(board, random_move, current_player)
        /\ moves_made' = Append(moves_made, random_move)
    /\ current_player' = 3 - current_player
    /\ UNCHANGED <<tree, player, num_simulations, use_uct, simulation,
                   current_node, path, undone, final_value, best_move, pc, exc,
                   board0, tree0, last_call, report,
                   move_count>>

\* Lines 152/240 (both loops end on a terminal board) and 248-260:
\* final_value = board.get_winner(), then the backpropagation loop.
Backpropagate ==
    /\ pc \in {"select", "rollout"}
    /\ is_terminal(board)
    /\ final_value' = get_winner(board)
    /\ IF get_winner(board) = NoWinner
       THEN /\ exc' = "TypeError"
            /\ pc' = "raised"
            /\ tree' = [tree EXCEPT ![current_node].ni = @ + 1]
       ELSE /\ tree' = backpropagate(tree, path, get_winner(board))
            /\ pc' = "undo"
            /\ exc' = exc
    /\ UNCHANGED <<board, player, num_simulations, use_uct, simulation,
                   current_node, current_player, path, moves_made, undone,
                   best_move, board0, tree0, last_call, report,
                   move_count>>

\* Lines 263-264: one iteration of the loop over reversed(moves_made).
UndoStep ==
    /\ pc = "undo"
    /\ undone < Len(moves_made)
    /\ board' = undo_move(board, moves_made[Len(moves_made) - undone])
    /\ undone' = undone + 1
    /\ UNCHANGED <<tree, player, num_simulations, use_uct, simulation,
                   current_node, current_player, path, moves_made, final_value,
                   best_move, pc, exc, board0, tree0, last_call, report,
                   move_count>>

\* The undo loop is exhausted: back to the for loop of line 145.
EndSimulation ==
    /\ pc = "undo"
    /\ undone = Len(moves_made)
    /\ simulation' = simulation + 1
    /\ pc' = "loop"
    /\ UNCHANGED <<board, tree, player, num_simulations, use_uct, current_node,
                   current_player, path, moves_made, undone, final_value,
                   best_move, exc, board0, tree0, last_call, report,
                   move_count>>

\* Lines 266-296 once the for loop is exhausted: the column report, the
\* best move extraction and the return.
Finish ==
    /\ pc = "loop"
    /\ simulation = num_simulations
    /\ IF report_raises(tree)
       THEN /\ exc' = "ZeroDivisionError"
            /\ pc' = "raised"
            /\ UNCHANGED <<report, best_move>>
       ELSE /\ report' = column_report(tree)
            /\ best_move' = select_best_move(tree, player)
            /\ pc' = "done"
            /\ exc' = exc
    /\ UNCHANGED <<board, tree, player, num_simulations, use_uct, simulation,
                   current_node, current_player, path, moves_made, undone,
                   final_value, board0, tree0, last_call, move_count>>

Next ==
    \/ StartSimulation
    \/ Expand
    \/ SelectUCT
    \/ SelectPMCGS
    \/ Rollout
    \/ Backpropagate
    \/ UndoStep
    \/ EndSimulation
    \/ Finish

Spec == Init /\ [][Next]_vars

----------------------------------------------------------------------------
(* A caller of the Board alone: any drop_in_slot and undo_move calls, and
   drop sequences undone in reverse order. *)

InitBoard ==
    /\ board = EmptyBoard
    /\ player = 1
    /\ num_simulations = 0
    /\ use_uct = FALSE
    /\ tree = (Root :> NewNode)
    /\ simulation = 0
    /\ current_node = Root
    /\ current_player = 1
    /\ path = <<>>
    /\ moves_made = <<>>
    /\ undone = 0
    /\ final_value = NoWinner
    /\ best_move = None
    /\ pc = "board"
    /\ exc = "none"
    /\ board0 = board
    /\ tree0 = tree
    /\ last_call = NoCall
    /\ report = <<>>
    /\ move_count = 0

\* The column arguments a caller may pass: one below and one above the range.
ColArgs == 0..(Cols + 1)

\* board.drop_in_slot(col, p) for any argument.
CallDrop(col, p) ==
    /\ pc = "board"
    /\ board' = drop_in_slot(board, col, p)
    /\ exc' = IF index_raises(board, col) THEN "IndexError" ELSE "none"
    /\ last_call' = [op |-> "drop", col |-> col, player |-> p]
    /\ UNCHANGED <<searchVars, moves_made, undone, pc, board0>>

\* board.undo_move(col) for any argument.
CallUndo(col) ==
    /\ pc = "board"
    /\ board' = undo_move(board, col)
    /\ exc' = IF index_raises(board, col) THEN "IndexError" ELSE "none"
    /\ last_call' = [op |-> "undo", col |-> col, player |-> 0]
    /\ UNCHANGED <<searchVars, moves_made, undone, pc, board0>>

\* A caller starts a sequence of drops that it will undo in reverse order.
BeginSequence ==
    /\ pc = "board"
    /\ pc' = "do"
    /\ board0' = board
    /\ moves_made' = <<>>
    /\ undone' = 0
    /\ exc' = "none"
    /\ last_call' = NoCall
    /\ UNCHANGED <<searchVars, board>>

\* drop_in_slot(col, p) into an open column, remembered in moves_made.
SeqDrop(col, p) ==
    /\ pc = "do"
    /\ Len(moves_made) < MaxSeq
    /\ is_slot_open(board, col)
    /\ board' = drop_in_slot(board, col, p)
    /\ moves_made' = Append(moves_made, col)
    /\ UNCHANGED <<searchVars, undone, pc, exc, board0, last_call>>

\* undo_move of the latest move not yet undone.
SeqUndo ==
    /\ pc \in {"do", "undoing"}
    /\ undone < Len(moves_made)
    /\ board' = undo_move(board, moves_made[Len(moves_made) - undone])
    /\ undone' = undone + 1
    /\ pc' = "undoing"
    /\ UNCHANGED <<searchVars, moves_made, exc, board0, last_call>>

NextBoard ==
    \/ \E col \in ColArgs : \E p \in Players : CallDrop(col, p)
    \/ \E col \in ColArgs : CallUndo(col)
    \/ BeginSequence
    \/ \E col \in ColRange : \E p \in Players : SeqDrop(col, p)
    \/ SeqUndo

SpecBoard == InitBoard /\ [][NextBoard]_vars

\* run_mcts with a budget of at most 1 on the empty board (Board()).
InitFirstMove ==
    /\ board = EmptyBoard
    /\ player \in Players
    /\ num_simulations \in {0, 1}
    /\ use_uct \in BOOLEAN
    /\ tree = (Root :> NewNode)
    /\ simulation = 0
    /\ current_node = Root
    /\ current_player = player
    /\ path = <<>>
    /\ moves_made = <<>>
    /\ undone = 0
    /\ final_value = NoWinner
    /\ best_move = None
    /\ pc = "loop"
    /\ exc = "none"
    /\ board0 = board
    /\ tree0 = tree
    /\ last_call = NoCall
    /\ report = <<>>
    /\ move_count = 0

\* run_mcts as a sequential program: a step that can be taken is taken.
\* The calls of Init with a small budget on nearly full boards.
InitLive ==
    /\ Init
    /\ EmptyCount(board) <= MaxEmptyLive
    /\ num_simulations <= MaxSimsLive

SpecLive == InitLive /\ [][Next]_vars /\ WF_vars(Next)

\* run_mcts on the boards of Init and on the first move of a game.
SpecSchedule == (Init \/ InitFirstMove) /\ [][Next]_vars

----------------------------------------------------------------------------
(* play_full_game between two "UR" players *)

\* Line 340: the bound on move_count.
MoveLimit == 42

\* Lines 330-339: board = Board(), current_player = 1, move_count = 0.
InitPlay ==
    /\ board = NewBoard(PlayCols, PlayRows)
    /\ player = 1
    /\ num_simulations = 0
    /\ use_uct = FALSE
    /\ tree = (Root :> NewNode)
    /\ simulation = 0
    /\ current_node = Root
    /\ current_player = 1
    /\ path = <<>>
    /\ moves_made = <<>>
    /\ undone = 0
    /\ final_value = NoWinner
    /\ best_move = None
    /\ pc = "play"
    /\ exc = "none"
    /\ board0 = board
    /\ tree0 = tree
    /\ last_call = NoCall
    /\ report = <<>>
    /\ move_count = 0

\* Lines 340-345 and 434-436: one iteration of the game loop with
\* move = random.choice(board.get_legal_moves()).
PlayMove ==
    /\ pc = "play"
    /\ ~is_terminal(board)
    /\ move_count < MoveLimit
    /\ \E move \in get_legal_moves(board) :
        board' = drop_in_slot(board, move, current_player)
    /\ current_player' = 3 - current_player
    /\ move_count' = move_count + 1
    /\ UNCHANGED <<tree, player, num_simulations, use_uct, simulation,
                   current_node, path, moves_made, undone, final_value,
                   best_move, pc, exc, board0, tree0, last_call, report>>

\* Lines 438-444: the value play_full_game returns for winner.
game_result(winner) ==
    IF winner = 0 - 1 THEN 1
    ELSE IF winner = 1 THEN 2
    ELSE 0

\* Lines 340 and 438-444: the game loop ends, winner = board.get_winner()
\* (kept in final_value) and the result is returned (kept in best_move).
PlayEnd ==
    /\ pc = "play"
    /\ is_terminal(board) \/ move_count >= MoveLimit
    /\ final_value' = get_winner(board)
    /\ best_move' = game_result(get_winner(board))
    /\ pc' = "over"
    /\ UNCHANGED <<board, tree, player, num_simulations, use_uct, simulation,
                   current_node, current_player, path, moves_made, undone,
                   exc, board0, tree0, last_call, report, move_count>>

NextPlay ==
    \/ PlayMove
    \/ PlayEnd

SpecPlay == InitPlay /\ [][NextPlay]_vars

\* run_mcts on its input boards and the game from the empty board together.
SpecWin == (Init \/ InitPlay) /\ [][Next \/ NextPlay]_vars

----------------------------------------------------------------------------
(* The search inlined in play_full_game (lines 347-432), on the variables of
   run_mcts: its node is current_node, its player is current_player, the
   game's current_player is player, algo_params is num_simulations, sim is
   simulation, value is final_value and move is best_move. *)

\* Line 359: untried = [m for m in moves if m not in node.children].
untried(b, t, node) ==
    {m \in get_legal_moves(b) : m \notin {t[node].children[i] : i \in 1..Len(t[node].children)}}

\* Lines 376-386: the loop over node.children.items() when player == 2.
RECURSIVE best_ucb_max(_, _, _, _, _)
best_ucb_max(t, node, i, best_m, best_ucb) ==
    IF i > Len(t[node].children) THEN best_m
    ELSE LET m == t[node].children[i]
             ch == t[Append(node, m)]
             ucb == calculate_ucb(t[node].ni, ch.wi, ch.ni, TRUE)
         IN  IF ucb > best_ucb
             THEN best_ucb_max(t, node, i + 1, m, ucb)
             ELSE best_ucb_max(t, node, i + 1, best_m, best_ucb)

\* Lines 376-386: the loop over node.children.items() when player == 1.
RECURSIVE best_ucb_min(_, _, _, _, _)
best_ucb_min(t, node, i, best_m, best_ucb) ==
    IF i > Len(t[node].children) THEN best_m
    ELSE LET m == t[node].children[i]
             ch == t[Append(node, m)]
             ucb == calculate_ucb(t[node].ni, ch.wi, ch.ni, FALSE)
         IN  IF ucb < best_ucb
             THEN best_ucb_min(t, node, i + 1, m, ucb)
             ELSE best_ucb_min(t, node, i + 1, best_m, best_ucb)

\* Lines 373-386: m = best_m.
pick_best_ucb(t, node, pl) ==
    IF pl = 2 THEN best_ucb_max(t, node, 1, None, 0 - Inf)
    ELSE best_ucb_min(t, node, 1, None, Inf)

\* The backpropagation loop without "n.wi += value".
backprop_visits_only(t, nodes, value) ==
    [n \in DOMAIN t |->
        IF n \in {nodes[i] : i \in 1..Len(nodes)}
        THEN [ni |-> t[n].ni + 1, wi |-> t[n].wi, children |-> t[n].children]
        ELSE t[n]]

\* Lines 406-408: for n in reversed(path): n.ni += 1; n.wi += value.
backprop(t, nodes, value) ==
    [n \in DOMAIN t |->
        IF n \in {nodes[i] : i \in 1..Len(nodes)}
        THEN [ni |-> t[n].ni + 1, wi |-> t[n].wi + value,
              children |-> t[n].children]
        ELSE t[n]]

\* Lines 416-423 and 424-431: the loop over root.children.items(); best_n = 0
\* stands for best_val = -inf (or inf), and val = ch.wi / ch.ni is compared
\* as a fraction.
RECURSIVE best_val_scan(_, _, _, _, _, _)
best_val_scan(t, maximize, i, best, best_w, best_n) ==
    IF i > Len(t[Root].children) THEN best
    ELSE LET m == t[Root].children[i]
             ch == t[<<m>>]
             improves == \/ best_n = 0
                         \/ best_n # 0 /\ maximize
                              /\ ch.wi * best_n > best_w * ch.ni
                         \/ best_n # 0 /\ ~maximize
                              /\ ch.wi * best_n < best_w * ch.ni
         IN  IF ch.ni > 0 /\ improves
             THEN best_val_scan(t, maximize, i + 1, m, ch.wi, ch.ni)
             ELSE best_val_scan(t, maximize, i + 1, best, best_w, best_n)

\* Lines 414-432: move = best_move.
inline_best_move(t, mover) == best_val_scan(t, mover = 2, 1, None, 0, 0)

\* Lines 351-355: the next iteration of "for sim in range(algo_params)".
InlineStartSimulation ==
    /\ pc = "loop"
    /\ simulation < num_simulations
    /\ current_node' = Root
    /\ current_player' = player
    /\ path' = <<Root>>
    /\ moves_made' = <<>>
    /\ undone' = 0
    /\ tree0' = tree
    /\ pc' = "select"
    /\ UNCHANGED <<board, tree, player, num_simulations, use_uct, simulation,
                   final_value, best_move, exc, board0, last_call, report,
                   move_count>>

\* Lines 357-370: a child for one untried move, then break.
InlineExpand ==
    /\ pc = "select"
    /\ ~is_terminal(board)
    /\ \E m \in untried(board, tree, current_node) :
        LET child == Append(current_node, m)
        IN  /\ board' = drop_in_slot(board, m, current_player)
            /\ moves_made' = Append(moves_made, m)
            /\ tree' = [n \in DOMAIN tree \cup {child} |->
                          IF n = child THEN NewNode
                          ELSE IF n = current_node /\ ~HasChild(tree, n, m)
                          THEN [tree[n] EXCEPT !.children = Append(@, m)]
                          ELSE tree[n]]
            /\ current_node' = child
            /\ path' = Append(path, child)
    /\ current_player' = 3 - current_player
    /\ pc' = "rollout"
    /\ UNCHANGED <<player, num_simulations, use_uct, simulation, undone,
                   final_value, best_move, exc, board0, tree0, last_call,
                   report, move_count>>

\* Lines 390-394 for the move m picked at a fully expanded node.
InlineDescend(m) ==
    IF m = None
    THEN /\ exc' = "TypeError"
         /\ pc' = "raised"
         /\ UNCHANGED <<board, moves_made, current_node, path, current_player>>
    ELSE /\ board' = drop_in_slot(board, m, current_player)
         /\ moves_made' = Append(moves_made, m)
         /\ IF HasChild(tree, current_node, m)
            THEN /\ current_node' = Append(current_node, m)
                 /\ path' = Append(path, Append(current_node, m))
                 /\ current_player' = 3 - current_player
                 /\ UNCHANGED <<pc, exc>>
            ELSE /\ exc' = "KeyError"
                 /\ pc' = "raised"
                 /\ UNCHANGED <<current_node, path, current_player>>

\* Lines 371-394: at a fully expanded node, the child of best UCB when
\* use_uct, else random.choice(moves).
InlineSelect ==
    /\ pc = "select"
    /\ ~is_terminal(board)
    /\ untried(board, tree, current_node) = {}
    /\ IF use_uct
       THEN IF uct_raises(tree, current_node)
            THEN /\ exc' = "ValueError"
                 /\ pc' = "raised"
                 /\ UNCHANGED <<board, moves_made, current_node, path,
                                current_player>>
            ELSE InlineDescend(pick_best_ucb(tree, current_node, current_player))
       ELSE \E m \in get_legal_moves(board) : InlineDescend(m)
    /\ UNCHANGED <<tree, player, num_simulations, use_uct, simulation, undone,
                   final_value, best_move, board0, tree0, last_call, report,
                   move_count>>

\* Lines 397-401: one iteration of the rollout loop.
InlineRollout ==
    /\ pc = "rollout"
    /\ ~is_terminal(board)
    /\ \E m \in get_legal_moves(board) :
        /\ board' = drop_in_slot(board, m, current_player)
        /\ moves_made' = Append(moves_made, m)
    /\ current_player' = 3 - current_player
    /\ UNCHANGED <<tree, player, num_simulations, use_uct, simulation,
                   current_node, path, undone, final_value, best_move, pc, exc,
                   board0, tree0, last_call, report, move_count>>

\* Lines 357/397 (both loops end on a terminal board) and 403-408.
InlineBackprop ==
    /\ pc \in {"select", "rollout"}
    /\ is_terminal(board)
    /\ final_value' = get_winner(board)
    /\ IF get_winner(board) = NoWinner
       THEN /\ exc' = "TypeError"
            /\ pc' = "raised"
            /\ tree' = [tree EXCEPT ![current_node].ni = @ + 1]
       ELSE /\ tree' = backprop(tree, path, get_winner(board))
            /\ pc' = "undo"
            /\ UNCHANGED exc
    /\ UNCHANGED <<board, player, num_simulations, use_uct, simulation,
                   current_node, current_player, path, moves_made, undone,
                   best_move, board0, tree0, last_call, report, move_count>>

\* Lines 411-412: one iteration of "for m in reversed(moves_made)".
InlineUndo ==
    /\ pc = "undo"
    /\ undone < Len(moves_made)
    /\ board' = undo_move(board, moves_made[Len(moves_made) - undone])
    /\ undone' = undone + 1
    /\ UNCHANGED <<tree, player, num_simulations, use_uct, simulation,
                   current_node, current_player, path, moves_made, final_value,
                   best_move, pc, exc, board0, tree0, last_call, report,
                   move_count>>

\* The undo loop is exhausted: back to the for loop of line 351.
InlineEndSimulation ==
    /\ pc = "undo"
    /\ undone = Len(moves_made)
    /\ simulation' = simulation + 1
    /\ pc' = "loop"
    /\ UNCHANGED <<board, tree, player, num_simulations, use_uct, current_node,
                   current_player, path, moves_made, undone, final_value,
                   best_move, exc, board0, tree0, last_call, report,
                   move_count>>

\* Lines 414-432 once the for loop is exhausted; nothing is printed.
InlineFinish ==
    /\ pc = "loop"
    /\ simulation = num_simulations
    /\ best_move' = inline_best_move(tree, player)
    /\ pc' = "done"
    /\ UNCHANGED <<board, tree, player, num_simulations, use_uct, simulation,
                   current_node, current_player, path, moves_made, undone,
                   final_value, exc, board0, tree0, last_call, report,
                   move_count>>

NextInline ==
    \/ InlineStartSimulation
    \/ InlineExpand
    \/ InlineSelect
    \/ InlineRollout
    \/ InlineBackprop
    \/ InlineUndo
    \/ InlineEndSimulation
    \/ InlineFinish

\* The inline search from the arguments of Init.
SpecInline == Init /\ [][NextInline]_vars

\* Each step taken by either copy of the search.
SpecTwin == Init /\ [][Next \/ NextInline]_vars

----------------------------------------------------------------------------
(* run_mcts on a position loaded by read_board_from_file *)

\* The characters of a board line: R, Y and any other character (O).
Chars == {"R", "Y", "O"}

\* The board lines of a file, top row first.
BoardFiles == [1..LoadRows -> [1..LoadCols -> Chars]]

\* read_board_from_file: player from the second line, and each R or Y of the
\* board lines written into its cell (the top line is the highest row); no
\* cell is checked against the cells below it.
read_board_from_file(player_char, board_lines) ==
    [player |-> IF player_char = "R" THEN 1 ELSE 2,
     board |-> [col \in 1..LoadCols |-> [row \in 1..LoadRows |->
                  LET char == board_lines[LoadRows - row + 1][col]
                  IN  IF char = "R" THEN 1
                      ELSE IF char = "Y" THEN 2
                      ELSE None]]]

\* main: run_mcts on the board and player read from a file.
InitLoad ==
    /\ \E player_char \in {"R", "Y"} : \E board_lines \in BoardFiles :
        LET loaded == read_board_from_file(player_char, board_lines)
        IN  /\ board = loaded.board
            /\ player = loaded.player
    /\ EmptyCount(board) <= MaxEmpty
    /\ num_simulations \in 0..MaxSims
    /\ use_uct \in BOOLEAN
    /\ tree = (Root :> NewNode)
    /\ simulation = 0
    /\ current_node = Root
    /\ current_player = player
    /\ path = <<>>
    /\ moves_made = <<>>
    /\ undone = 0
    /\ final_value = NoWinner
    /\ best_move = None
    /\ pc = "loop"
    /\ exc = "none"
    /\ board0 = board
    /\ tree0 = tree
    /\ last_call = NoCall
    /\ report = <<>>
    /\ move_count = 0

SpecLoad == InitLoad /\ [][Next]_vars

\* The Board under its caller and under run_mcts together.
SpecAll == (Init \/ InitBoard) /\ [][Next \/ NextBoard]_vars

----------------------------------------------------------------------------
(* Properties *)

\* No piece floats: in every column the occupied cells are the lowest ones.
Gravity(b) ==
    \A c \in DOMAIN b : \A r \in DOMAIN b[c] : \A q \in DOMAIN b[c] :
        (q < r /\ b[c][q] = None) => b[c][r] = None

\* Player p owns four cells in a line (stated on the cells, not by a scan).
Directions == {<<1, 0>>, <<0, 1>>, <<1, 1>>, <<1, 0 - 1>>}

Line(b, p) ==
    \E c \in 1..cols(b) : \E r \in 1..rows(b) : \E d \in Directions :
        \A i \in 0..3 :
            /\ c + i * d[1] \in 1..cols(b)
            /\ r + i * d[2] \in 1..rows(b)
            /\ b[c + i * d[1]][r + i * d[2]] = p

\* The number of pieces on a grid.
PieceCount(b) == cols(b) * rows(b) - EmptyCount(b)

\* ni and wi of a node in a tree, 0 for a node not yet created.
NiOf(t, n) == IF n \in DOMAIN t THEN t[n].ni ELSE 0
WiOf(t, n) == IF n \in DOMAIN t THEN t[n].wi ELSE 0

\* The sum of ni over the children of node n.
RECURSIVE ChildVisits(_, _, _)
ChildVisits(t, n, i) ==
    IF i = 0 THEN 0
    ELSE t[Append(n, t[n].children[i])].ni + ChildVisits(t, n, i - 1)

SumChildVisits(t, n) == ChildVisits(t, n, Len(t[n].children))

\* n is on the traversal path of the current simulation.
OnPath(n) == \E i \in 1..Len(path) : path[i] = n

\* A simulation has been backpropagated and its statistics are in place.
SimulationCounted ==
    \/ pc = "undo"
    \/ pc \in {"loop", "done"} /\ simulation >= 1

\* C1: run_mcts leaves the grid as it found it, at its return and at the end
\* of every simulation, once the undo loop is through.
BoardRestored ==
    (pc \in {"loop", "done"} \/ (pc = "undo" /\ undone = Len(moves_made)))
        => board = board0

\* C1 witness: a returned search whose last simulation dropped and undid
\* at least two pieces.
BoardRestoredWitness ==
    /\ pc = "done"
    /\ simulation >= 2
    /\ Len(moves_made) >= 2
    /\ undone = Len(moves_made)
    /\ board = board0

\* C2: a sequence of drops into open columns, undone in reverse order, gives
\* back the grid, the legal moves, is_terminal() and get_winner().
DoUndoSymmetry ==
    (pc \in {"do", "undoing"} /\ undone = Len(moves_made))
        => /\ board = board0
           /\ get_legal_moves(board) = get_legal_moves(board0)
           /\ is_terminal(board) = is_terminal(board0)
           /\ get_winner(board) = get_winner(board0)

\* C2 witness: two drops into the same column of a board with pieces, undone.
DoUndoWitness ==
    /\ pc = "undoing"
    /\ Len(moves_made) = 2
    /\ moves_made[1] = moves_made[2]
    /\ undone = 2
    /\ PieceCount(board0) >= 2
    /\ board = board0

\* C3: in every state of the Board's caller and of run_mcts no piece floats.
GravityInvariant == Gravity(board)

\* C3 witness: inside a simulation, after drops and a first undo, on a board
\* that holds columns of different heights.
GravityWitness ==
    /\ pc = "undo"
    /\ undone >= 1
    /\ undone < Len(moves_made)
    /\ \E c \in ColRange : board[c][Rows] # None
    /\ \E c \in ColRange : board[c][1] = None
    /\ Gravity(board)

\* C4 as claimed: after the call every node with children, the root included,
\* has ni = 1 + the sum of its children's ni.
VisitConservationAsClaimed ==
    pc = "done" =>
        \A n \in DOMAIN tree :
            Len(tree[n].children) > 0 => tree[n].ni = 1 + SumChildVisits(tree, n)

\* C4 amended: between simulations and after the call, every node other than
\* the root that has children has ni = 1 + the sum of its children's ni, and
\* the root has ni = the sum of its children's ni when it has children.
VisitConservation ==
    pc \in {"loop", "done"} =>
        \A n \in DOMAIN tree :
            Len(tree[n].children) > 0 =>
                tree[n].ni = (IF n = Root THEN 0 ELSE 1) + SumChildVisits(tree, n)

\* C4 witness: after the call, a node below the root has a child.
VisitConservationWitness ==
    /\ pc = "done"
    /\ \E n \in DOMAIN tree :
        /\ n # Root
        /\ Len(tree[n].children) > 0
        /\ tree[n].ni = 1 + SumChildVisits(tree, n)
        /\ tree[Root].ni = SumChildVisits(tree, Root)

\* C5: a simulation adds 1 to ni and final_value to wi on every node of its
\* path and changes no other node; root.ni counts the simulations completed
\* and is num_simulations at the return.
BackpropagationEffect ==
    /\ SimulationCounted =>
        \A n \in DOMAIN tree :
            IF OnPath(n)
            THEN /\ tree[n].ni = NiOf(tree0, n) + 1
                 /\ tree[n].wi = WiOf(tree0, n) + final_value
            ELSE /\ n \in DOMAIN tree0
                 /\ tree[n].ni = tree0[n].ni
                 /\ tree[n].wi = tree0[n].wi
    /\ pc = "loop" => tree[Root].ni = simulation
    /\ pc = "done" => tree[Root].ni = num_simulations

\* C5 witness: a third simulation counted on a path of three nodes while a
\* node off the path exists.
BackpropagationWitness ==
    /\ pc = "undo"
    /\ simulation = 2
    /\ Len(path) >= 3
    /\ final_value # 0
    /\ \E n \in DOMAIN tree : ~OnPath(n)

\* C6: a simulation creates at most one node and does not descend further
\* after creating it, so after k simulations at most k nodes lie below the root.
ExpansionBound ==
    /\ Cardinality(DOMAIN tree) <= Cardinality(DOMAIN tree0) + 1
    /\ pc = "select" => DOMAIN tree = DOMAIN tree0
    /\ pc \in {"loop", "done"} => Cardinality(DOMAIN tree) - 1 <= simulation

\* C6 witness: the rollout of a third simulation after its expansion, with
\* three nodes below the root.
ExpansionBoundWitness ==
    /\ pc = "rollout"
    /\ simulation = 2
    /\ Len(moves_made) > Len(path) - 1
    /\ Cardinality(DOMAIN tree) = 4

\* C7 as claimed: the value backpropagated is +1 when the searching player
\* has won, -1 when its opponent has, 0 on a draw.
RewardFromSearcherAsClaimed ==
    (pc = "undo" /\ undone = 0) =>
        final_value = (IF Line(board, player) THEN 1
                       ELSE IF Line(board, 3 - player) THEN 0 - 1
                       ELSE 0)

\* C7 amended: the value backpropagated is -1 when player 1 has four in a
\* line on the final board, +1 when player 2 has and player 1 has not, 0 on
\* a full board without a line, whoever searches and whoever moved last; it
\* is what every node of the path adds to wi.
RewardAbsolute ==
    (pc = "undo" /\ undone = 0) =>
        /\ final_value = (IF Line(board, 1) THEN 0 - 1
                          ELSE IF Line(board, 2) THEN 1
                          ELSE 0)
        /\ ~Line(board, 1) /\ ~Line(board, 2) => is_full(board)
        /\ \A i \in 1..Len(path) :
              tree[path[i]].wi = WiOf(tree0, path[i]) + final_value

\* C7 witness: player 1 searches and the simulated game is won by player 1
\* with player 1 moving last: -1 is backpropagated.
RewardWitness ==
    /\ pc = "undo"
    /\ undone = 0
    /\ player = 1
    /\ Len(moves_made) >= 1
    /\ current_player = 2
    /\ Line(board, 1)
    /\ ~Line(board0, 1)
    /\ final_value = 0 - 1

\* The average of child a is greater than that of child b (ni > 0 for both).
AvgGreater(t, a, b) == t[<<a>>].wi * t[<<b>>].ni > t[<<b>>].wi * t[<<a>>].ni

\* The position of move m in the insertion order of the root's children.
RootIndex(t, m) == CHOOSE i \in 1..Len(t[Root].children) : t[Root].children[i] = m

\* C8: on a non-terminal board with a budget of at least 1 the returned
\* column is legal at the root, has a visited root child, and its average is
\* the maximum (player 2) or the minimum (player 1) over the root's
\* children, the earliest-created child winning ties.
FinalMoveSelection ==
    (pc = "done" /\ ~is_terminal(board0) /\ num_simulations >= 1) =>
        /\ best_move \in get_legal_moves(board0)
        /\ HasChild(tree, Root, best_move)
        /\ tree[<<best_move>>].ni >= 1
        /\ \A i \in 1..Len(tree[Root].children) :
            LET m == tree[Root].children[i]
            IN  /\ player = 2 => ~AvgGreater(tree, m, best_move)
                /\ player = 1 => ~AvgGreater(tree, best_move, m)
                /\ i < RootIndex(tree, best_move) =>
                      IF player = 2 THEN AvgGreater(tree, best_move, m)
                      ELSE AvgGreater(tree, m, best_move)

\* C8 witness: player 1 searches, the root has two children with different
\* averages, and the later-created one is returned.
FinalMoveWitness ==
    /\ pc = "done"
    /\ ~is_terminal(board0)
    /\ player = 1
    /\ Len(tree[Root].children) >= 2
    /\ best_move # None
    /\ RootIndex(tree, best_move) >= 2

\* C9 as claimed: with a budget of 0 or on a terminal board the call ends in
\* an error (NoSimulationsRun or NoLegalMoves) and yields no column.
DegenerateInputIsError ==
    (pc = "done" /\ (num_simulations = 0 \/ is_terminal(board0))) =>
        /\ exc \in {"NoSimulationsRun", "NoLegalMoves"}
        /\ best_move \notin ColRange

\* C10 as claimed: drop_in_slot with a column out of [1, cols] or a full
\* column fails with IllegalMove and changes no cell; with an open column in
\* range it places one piece of the player in the lowest empty cell and
\* changes nothing else.
IllegalDropRejected ==
    [][(pc = "board" /\ last_call'.op = "drop") =>
          IF last_call'.col \in ColRange /\ board[last_call'.col][Rows] = None
          THEN /\ exc' = "none"
               /\ \E r \in RowRange :
                    /\ board[last_call'.col][r] = None
                    /\ \A q \in RowRange : q < r => board[last_call'.col][q] # None
                    /\ board' = [board EXCEPT ![last_call'.col][r] = last_call'.player]
          ELSE /\ exc' = "IllegalMove"
               /\ board' = board]_vars

\* C11 as claimed: the report tells three cases apart for every column of
\* the board: a root child's average, a legal column without a child ("not
\* visited") and a full column ("not applicable", another value).
ReportThreeCasesAsClaimed ==
    pc = "done" =>
        /\ \A c \in 1..cols(board0) :
              HasChild(tree, Root, c) => ~report[c].null
        /\ \A c1 \in 1..cols(board0) : \A c2 \in 1..cols(board0) :
              (/\ is_slot_open(board0, c1)
               /\ ~HasChild(tree, Root, c1)
               /\ ~is_slot_open(board0, c2)) => report[c1] # report[c2]

\* C11 amended: the report tells two cases apart for every column 1..7: a
\* column with a root child reports wi/ni rounded to hundredths, and every
\* other column reports the one value Null, be it legal and unvisited, full,
\* or beyond the board.
ReportTwoCases ==
    pc = "done" =>
        \A c \in 1..ReportCols :
            IF c \in 1..cols(board0) /\ HasChild(tree, Root, c)
            THEN /\ ~report[c].null
                 /\ tree[<<c>>].ni >= 1
                 /\ LET d == 100 * tree[<<c>>].wi - report[c].cents * tree[<<c>>].ni
                    IN  2 * d <= tree[<<c>>].ni /\ 2 * d >= 0 - tree[<<c>>].ni
            ELSE report[c] = Null

\* C11 witness: a report over a root child, a legal column without a child
\* and a full column, the last two printed alike.
ReportWitness ==
    /\ pc = "done"
    /\ \E c1 \in 1..cols(board0) : \E c2 \in 1..cols(board0) :
       \E c3 \in 1..cols(board0) :
        /\ is_slot_open(board0, c1) /\ ~HasChild(tree, Root, c1)
        /\ ~is_slot_open(board0, c2)
        /\ HasChild(tree, Root, c3) /\ ~report[c3].null
        /\ report[c1] = Null /\ report[c2] = Null

\* The value every simulation through a position won by p backpropagates.
WinValue(p) == IF p = 2 THEN 1 ELSE 0 - 1

\* C12: when dropping the mover's piece in column c of the non-terminal root
\* position completes four in a line, the root child for c, once created,
\* always has wi = ni (mover 2) or wi = -ni (mover 1).
ImmediateWinColumn ==
    (pc # "board" /\ ~is_terminal(board0)) =>
        \A c \in get_legal_moves(board0) :
            (Line(drop_in_slot(board0, c, player), player) /\ <<c>> \in DOMAIN tree)
                => tree[<<c>>].wi = WinValue(player) * tree[<<c>>].ni

\* C12 witness: a winning column of player 1 whose child was visited twice.
ImmediateWinWitness ==
    /\ pc = "done"
    /\ player = 1
    /\ ~is_terminal(board0)
    /\ \E c \in get_legal_moves(board0) :
        /\ Line(drop_in_slot(board0, c, player), player)
        /\ <<c>> \in DOMAIN tree
        /\ tree[<<c>>].ni >= 2
        /\ tree[<<c>>].wi = 0 - tree[<<c>>].ni

Min(a, b) == IF a < b THEN a ELSE b

\* C13: on a non-terminal root with L legal moves the root has min(k, L)
\* children after k simulations, for distinct legal columns, each with
\* ni >= 1; after one simulation there is one root child with ni = 1 and wi
\* in {-1, 0, 1}, root.ni = 1, and no other column has a child.
RootExpansionSchedule ==
    (pc \in {"loop", "done"} /\ ~is_terminal(board0)) =>
        LET kids == tree[Root].children
            L == Cardinality(get_legal_moves(board0))
        IN  /\ Len(kids) = Min(simulation, L)
            /\ \A i \in 1..Len(kids) : \A j \in 1..Len(kids) :
                  i # j => kids[i] # kids[j]
            /\ \A i \in 1..Len(kids) :
                  /\ kids[i] \in get_legal_moves(board0)
                  /\ tree[<<kids[i]>>].ni >= 1
            /\ simulation = 1 =>
                  /\ Len(kids) = 1
                  /\ tree[Root].ni = 1
                  /\ tree[<<kids[1]>>].ni = 1
                  /\ tree[<<kids[1]>>].wi \in {0 - 1, 0, 1}
                  /\ DOMAIN tree = {Root, <<kids[1]>>}
                  /\ pc = "done" =>
                        \A c \in 1..ReportCols : c # kids[1] => report[c] = Null

\* C13 witness: budget 1 on the empty board, returned.
RootExpansionWitness ==
    /\ pc = "done"
    /\ board0 = EmptyBoard
    /\ num_simulations = 1
    /\ Len(tree[Root].children) = 1
    /\ tree[Root].ni = 1

\* The UCB1 score of the child for move c of node n, for the player to move.
Score(t, n, c, cp) ==
    calculate_ucb(t[n].ni, t[Append(n, c)].wi, t[Append(n, c)].ni, cp = 2)

\* The position of move m in the insertion order of the children of node n.
ChildIndex(t, n, m) ==
    CHOOSE i \in 1..Len(t[n].children) : t[n].children[i] = m

ChildKeys(t, n) == {t[n].children[i] : i \in 1..Len(t[n].children)}

\* C15: whenever the fully expanded branch is taken, the keys of
\* current_node.children are the legal moves of the board, and the lookup
\* current_node.children[selected_move] never fails.
ChildrenAreLegalMoves ==
    /\ exc # "KeyError"
    /\ (pc = "select" /\ ~is_terminal(board)
        /\ untried_moves(board, tree, current_node) = {})
          => ChildKeys(tree, current_node) = get_legal_moves(board)

\* C15 witness: PMCGS at a fully expanded node with two children.
ChildrenAreLegalWitness ==
    /\ pc = "select"
    /\ ~use_uct
    /\ ~is_terminal(board)
    /\ untried_moves(board, tree, current_node) = {}
    /\ Cardinality(ChildKeys(tree, current_node)) >= 2

\* The number of pieces in a column.
Height(column) == Cardinality({r \in DOMAIN column : column[r] # None})

\* The mover of the i-th move of a simulation.
Mover(i) == IF i % 2 = 1 THEN player ELSE 3 - player

\* The grid after the first k moves of a simulation, each piece put on top
\* of its column.
RECURSIVE Replay(_, _, _)
Replay(b, moves, k) ==
    IF k = 0 THEN b
    ELSE LET prev == Replay(b, moves, k - 1)
         IN  [prev EXCEPT ![moves[k]][Height(prev[moves[k]]) + 1] = Mover(k)]

\* C16: every drop of run_mcts goes into a column that is open at that
\* moment and every undo removes the piece of the matching drop, so the grid
\* is the input grid plus the moves of moves_made not yet undone.
NoIllegalMoveNoUnderflow ==
    pc # "board" =>
        LET k == Len(moves_made) - undone
        IN  /\ \A i \in 1..Len(moves_made) :
                  /\ moves_made[i] \in 1..cols(board0)
                  /\ Height(Replay(board0, moves_made, i - 1)[moves_made[i]])
                        < rows(board0)
            /\ board = Replay(board0, moves_made, k)
            /\ PieceCount(board) = PieceCount(board0) + k

\* C16 witness: the undo loop half way through three moves, two of them in
\* one column.
NoIllegalMoveWitness ==
    /\ pc = "undo"
    /\ Len(moves_made) = 3
    /\ undone = 1
    /\ moves_made[1] = moves_made[3]

\* C17: calculate_ucb is only evaluated with parent_visits >= 1 and
\* child_visits >= 1, every child has ni >= 1 at the end of a simulation,
\* and neither math.log(0) nor a division by zero occurs.
NumericEdgeCasesUnreachable ==
    /\ exc \notin {"ValueError", "ZeroDivisionError"}
    /\ (pc = "select" /\ Len(tree[current_node].children) > 0) =>
          /\ tree[current_node].ni >= 1
          /\ \A c \in ChildKeys(tree, current_node) :
                tree[Append(current_node, c)].ni >= 1
    /\ pc \in {"loop", "done"} =>
          \A n \in DOMAIN tree : n # Root => tree[n].ni >= 1

\* C17 witness: UCT evaluates calculate_ucb over two children.
NumericEdgeWitness ==
    /\ pc = "select"
    /\ use_uct
    /\ ~is_terminal(board)
    /\ untried_moves(board, tree, current_node) = {}
    /\ Len(tree[current_node].children) >= 2
    /\ tree[current_node].ni >= 2

\* C18: after legal moves by alternating movers from a non-terminal
\* position, is_won_by(p) holds only for the player p who moved last and then
\* not for the other; get_winner is -1 (+1) exactly when the last mover is
\* player 1 (2) and owns four in a line, and 0 exactly on a full board
\* without a line.
WinScanAgreesWithLastMover ==
    LET last == 3 - current_player
        moved == \/ pc \in {"select", "rollout"} /\ Len(moves_made) > 0
                 \/ pc \in {"play", "over"} /\ move_count > 0
        won1 == is_won_by(board, 1)
        won2 == is_won_by(board, 2)
        line1 == Line(board, 1)
        line2 == Line(board, 2)
        winner == get_winner(board)
    IN  moved =>
          /\ won1 => (last = 1 /\ ~won2)
          /\ won2 => (last = 2 /\ ~won1)
          /\ winner = 0 - 1 <=> (last = 1 /\ line1)
          /\ winner = 1 <=> (last = 2 /\ line2)
          /\ winner = 0 <=> (is_full(board) /\ ~line1 /\ ~line2)

\* C18 witness: a game won on a falling diagonal.
WinScanWitness ==
    /\ pc = "over"
    /\ move_count > 0
    /\ check_diagonal_down(board, 3 - current_player)
    /\ ~check_horizontal(board, 3 - current_player)
    /\ ~check_vertical(board, 3 - current_player)
    /\ final_value = get_winner(board)

\* C19: every iteration of the selection and rollout loops places one
\* piece, a simulation places at most as many pieces as the input board has
\* empty cells, and run_mcts eventually returns after exactly
\* num_simulations simulations.
Termination ==
    /\ [](pc \in {"select", "rollout"} =>
            /\ PieceCount(board) = PieceCount(board0) + Len(moves_made)
            /\ Len(moves_made) <= EmptyCount(board0))
    /\ [](simulation <= num_simulations)
    /\ <>(pc = "done" /\ simulation = num_simulations)

\* C19 witness: run_mcts has returned after MaxSimsLive simulations, the last of
\* which filled every empty cell of the input board.
TerminationWitness ==
    /\ pc = "done"
    /\ simulation = num_simulations
    /\ num_simulations = MaxSimsLive
    /\ Len(moves_made) = EmptyCount(board0)
    /\ EmptyCount(board0) = MaxEmptyLive

\* C20: from the same board, mover, budget and policy, every step of run_mcts
\* is a step of the search inlined in play_full_game and conversely (the same
\* random choice gives the same tree, board and locals), and at the end both
\* select the same move with the board equal to the input board.
SearchesAgree ==
    [][IF pc = "loop" /\ simulation = num_simulations
       THEN /\ best_move' = select_best_move(tree, player)
            /\ best_move' = inline_best_move(tree, player)
            /\ pc' = "done"
            /\ tree' = tree
            /\ board' = board
            /\ board = board0
       ELSE Next /\ NextInline]_vars

\* C20 witness: both copies have returned a move after MaxSims simulations
\* with UCT on a tree with grandchildren.
SearchesAgreeWitness ==
    /\ pc = "done"
    /\ use_uct
    /\ num_simulations = MaxSims
    /\ best_move # None
    /\ best_move = inline_best_move(tree, player)
    /\ \E n \in DOMAIN tree : Len(n) = 2

\* C21: for every position read_board_from_file can construct, gravity
\* respected or not, run_mcts returns (and ends every simulation) with the
\* board equal to the loaded position.
LoadedBoardRestored ==
    pc \in {"loop", "done"} => board = board0

====
